---- MODULE Spec2Model ----
(***************************************************************************)
(* Model of the Twitch chat sentiment pipeline: svm.py (SentimentClassifier *)
(* and AnonymousTwitchReader), API.py (startup_event and the               *)
(* /sentiment/stream publisher) and main.py (the two threads).             *)
(*                                                                         *)
(* Strings are sequences of one-character strings, so that the string      *)
(* operations of the source (in, startswith, split, slicing, lower) are    *)
(* computed rather than assumed.  Scores are integers in hundredths: 100   *)
(* and -100 for the floats 1.0 and -1.0, 10 for the threshold 0.1.         *)
(* datetime.utcnow() is a logical clock that is read once per chat event.  *)
(***************************************************************************)
EXTENDS Integers, Sequences, FiniteSets, TLC

(***************************************************************************)
(* Bounds of the model.                                                    *)
(***************************************************************************)
\* capacity of the two deques; the source uses deque(maxlen=1000), the
\* model a small capacity so that eviction is reached
maxlen == 2
\* ticks of one subscriber's publishing loop
MaxTicks == 2

\* inbound lines the server sends on one connection
MaxLines == maxlen + 1

(***************************************************************************)
(* Python string operations on sequences of characters.                    *)
(***************************************************************************)
\* sub in s
Contains(s, sub) ==
    \E i \in 1..(Len(s) - Len(sub) + 1) : SubSeq(s, i, i + Len(sub) - 1) = sub

\* s.startswith(p)
StartsWith(s, p) == Len(s) >= Len(p) /\ SubSeq(s, 1, Len(p)) = p

\* index of the first occurrence of the character c in s, 0 when absent
Find(s, c) ==
    IF \E i \in 1..Len(s) : s[i] = c
    THEN CHOOSE i \in 1..Len(s) : s[i] = c /\ \A j \in 1..(i - 1) : s[j] # c
    ELSE 0

\* s.split(c, n): at most n splits at the character c, empty parts kept
RECURSIVE Split(_, _, _)
Split(s, c, n) ==
    IF n = 0 \/ Find(s, c) = 0
    THEN <<s>>
    ELSE <<SubSeq(s, 1, Find(s, c) - 1)>>
         \o Split(SubSeq(s, Find(s, c) + 1, Len(s)), c, n - 1)

\* s[1:]
Drop1(s) == SubSeq(s, 2, Len(s))

\* ch.lower() on the alphabet of the model
LowerChar(c) ==
    CASE c = "A" -> "a"
      [] c = "B" -> "b"
      [] c = "C" -> "c"
      [] OTHER -> c

\* a name used as it was configured
keep_case(s) == s

\* s.lower()
Lower(s) == [i \in 1..Len(s) |-> LowerChar(s[i])]

\* the value None of the source
None == <<"None">>

(***************************************************************************)
(* Literals of the source.                                                 *)
(***************************************************************************)
PING == <<"P", "I", "N", "G">>
PRIVMSG == <<"P", "R", "I", "V", "M", "S", "G">>
PASS_LINE == <<"P", "A", "S", "S", " ", "o", "a", "u", "t", "h", ":",
               "j", "u", "s", "t", "i", "n", "f", "a", "n",
               "1", "2", "3", "4", "5">>
NICK_LINE == <<"N", "I", "C", "K", " ",
               "j", "u", "s", "t", "i", "n", "f", "a", "n",
               "1", "2", "3", "4", "5">>
PONG_LINE == <<"P", "O", "N", "G", " ", ":", "t", "m", "i", ".",
               "t", "w", "i", "t", "c", "h", ".", "t", "v">>
JOIN_LINE(channel) == <<"J", "O", "I", "N", " ", "#">> \o channel

(***************************************************************************)
(* Inputs: the configured channels and the lines the server may send.      *)
(***************************************************************************)
\* the values of the environment variable TWITCH_CHANNEL: unset (os.getenv
\* then gives the empty string), or "Cb, A"
TwitchChannelValues == {<<>>, <<"C", "b", ",", " ", "A">>}

\* the files main.py requires in the working directory
RequiredFiles == {"vectorizer.sav", "classifier.sav", "svm.py", "API.py"}

\* the two model artifacts svm.main requires and SentimentClassifier loads
ModelFiles == {"vectorizer.sav", "classifier.sav"}

\* s.strip() for the whitespace of the model, the space
RECURSIVE Strip(_)
Strip(s) ==
    IF s # <<>> /\ s[1] = " " THEN Strip(Drop1(s))
    ELSE IF s # <<>> /\ s[Len(s)] = " " THEN Strip(SubSeq(s, 1, Len(s) - 1))
    ELSE s

NonEmpty(s) == s # <<>>

\* svm.main: [ch.strip() for ch in channels_str.split(',') if ch.strip()]
ParseChannels(channels_str) ==
    LET parts == Split(channels_str, ",", Len(channels_str))
    IN  SelectSeq([i \in 1..Len(parts) |-> Strip(parts[i])], NonEmpty)

\* PING :tmi
PingLine == PING \o <<" ", ":", "t", "m", "i">>
\* :a!a PRIVMSG #cb :hi
ChatA == <<":", "a", "!", "a", " ">> \o PRIVMSG \o <<" ", "#", "c", "b", " ", ":", "h", "i">>
\* :b!b PRIVMSG #cb :no
ChatB == <<":", "b", "!", "b", " ">> \o PRIVMSG \o <<" ", "#", "c", "b", " ", ":", "n", "o">>
\* :tmi 001 a :Hi   (a numeric reply: neither keepalive nor chat post)
NumericLine == <<":", "t", "m", "i", " ", "0", "0", "1", " ", "a", " ", ":", "H", "i">>

\* :a!a PRIVMSG #cb :PING   (a chat post whose text is the word PING)
ChatPing == <<":", "a", "!", "a", " ">> \o PRIVMSG \o <<" ", "#", "c", "b", " ", ":">> \o PING
\* :a PRIVMSG cb hi   (malformed: no "!", no "#", no ":" before the text)
LooseLine == <<":", "a", " ">> \o PRIVMSG \o <<" ", "c", "b", " ", "h", "i">>

Lines == {PingLine, ChatA, ChatB, NumericLine, ChatPing, LooseLine}

(***************************************************************************)
(* AnonymousTwitchReader.parse_irc_message                                 *)
(***************************************************************************)
NoEvent == [user |-> None, channel |-> None, message |-> None]

parse_irc_message(raw_message) ==
    IF Contains(raw_message, PRIVMSG) /\ ~StartsWith(raw_message, PING)
    THEN LET parts == Split(raw_message, " ", 3) IN
         IF Len(parts) >= 4 /\ StartsWith(parts[1], <<":">>)
         THEN [user    |-> Split(Drop1(parts[1]), "!", Len(parts[1]))[1],
               channel |-> IF StartsWith(parts[3], <<"#">>)
                           THEN Drop1(parts[3]) ELSE parts[3],
               message |-> IF StartsWith(parts[4], <<":">>)
                           THEN Drop1(parts[4]) ELSE parts[4]]
         ELSE NoEvent
    ELSE NoEvent

\* truth value of a str-or-None: None and the empty string are false
Truthy(x) == x # None /\ x # <<>>


(***************************************************************************)
(* State.                                                                  *)
(***************************************************************************)
\* the two SentimentClassifier objects the process constructs: the one of
\* svm.main (reader thread) and the one of API.startup_event
Inst == {"reader", "api"}

VARIABLES
    pc,                \* position of the reader thread (svm.main and below)
    state,             \* protocol client: position inside connect_and_listen
    joined,            \* number of channels the JOIN loop has handled
    nlines,            \* inbound lines received on the connection
    message_count,     \* AnonymousTwitchReader.message_count
    sent,              \* lines sent to the server with websocket.send
    cur,               \* arguments and locals of the running process_message
    utcnow,            \* the clock datetime.utcnow() reads
    recent_messages,   \* SentimentClassifier.recent_messages, per object
    sentiment_cache,   \* SentimentClassifier.sentiment_cache, per object
    lock,              \* SentimentClassifier.lock, per object: its holder
    twitch_messages,   \* rows of table twitch_messages in messages.db
    message_sentiments,\* rows of table message_sentiments in messages.db
    printed,           \* what process_message and the listen loop printed
    sentiment_analyzer,\* the module global of API.py
    sub_pc,            \* position of the subscriber's event_stream generator
    ticks,             \* iterations the subscriber's loop has started
    delivered,         \* payloads yielded to the subscriber
    raw_message,       \* the line the listen loop received last
    files,             \* the required files present in the working directory
    TWITCH_CHANNEL,    \* the environment variable
    main_pc,           \* position of the main thread (main.py main)
    snapshot           \* the last direct call of the aggregate and its result

reader_vars == <<pc, state, joined, nlines, raw_message, message_count, sent, cur, utcnow>>
cache_vars == <<recent_messages, sentiment_cache, lock>>
db_vars == <<twitch_messages, message_sentiments>>
api_vars == <<sentiment_analyzer, sub_pc, ticks, delivered>>
env_vars == <<files, TWITCH_CHANNEL, main_pc>>
vars == <<reader_vars, cache_vars, db_vars, printed, api_vars, env_vars, snapshot>>

\* the locals of process_message when no call is running
NoCall == [user |-> None, channel |-> None, message |-> None,
           message_id |-> 0, sentiment_score |-> 0]

\* AnonymousTwitchReader.__init__: self.channels
channels ==
    LET given == ParseChannels(TWITCH_CHANNEL)
    IN  [i \in 1..Len(given) |-> Lower(given[i])]

\* the state of the process when main.py starts
InitState ==
    /\ pc = "main"
    /\ state = "Disconnected"
    /\ joined = 0
    /\ nlines = 0
    /\ message_count = 0
    /\ sent = <<>>
    /\ cur = NoCall
    /\ utcnow = 0
    /\ recent_messages = [i \in Inst |-> <<>>]
    /\ sentiment_cache = [i \in Inst |-> <<>>]
    /\ lock = [i \in Inst |-> "free"]
    /\ twitch_messages = <<>>
    /\ message_sentiments = <<>>
    /\ printed = <<>>
    /\ sentiment_analyzer = "None"
    /\ sub_pc = "closed"
    /\ ticks = 0
    /\ delivered = <<>>
    /\ raw_message = None
    /\ files \in SUBSET RequiredFiles
    /\ TWITCH_CHANNEL \in TwitchChannelValues
    /\ main_pc = "main"

(***************************************************************************)
(* collections.deque(maxlen=...).append                                    *)
(***************************************************************************)
\* a list, which append never shortens
list_append(d, x) == Append(d, x)

deque_append(d, x) ==
    IF Len(d) >= maxlen THEN Append(Tail(d), x) ELSE Append(d, x)

(***************************************************************************)
(* Reader thread: svm.main and AnonymousTwitchReader.connect_and_listen    *)
(***************************************************************************)
\* a client that connects again when the connection is lost
reconnect_on_connection_lost == [pc |-> "connect_and_listen", state |-> "Connecting"]

\* what connect_and_listen and svm.main do once the connection is lost or
\* an exception reaches connect_and_listen: print, return, final database
\* check; nothing connects again
on_connection_lost == [pc |-> "done", state |-> "Disconnected"]

\* a main that starts the threads without looking
requirements_unchecked == TRUE

\* the checks of main.py main before it starts a thread
requirements_met == RequiredFiles \subseteq files /\ TWITCH_CHANNEL # <<>>

\* the checks of svm.main before it constructs anything
svm_requirements_met == ModelFiles \subseteq files /\ TWITCH_CHANNEL # <<>>

\* main.py main: sys.exit(1) when a requirement is missing, otherwise
\* reader_thread.start()
main_py ==
    /\ main_pc = "main"
    /\ main_pc' = IF requirements_met THEN "reader_thread" ELSE "exited"
    /\ UNCHANGED <<files, TWITCH_CHANNEL, snapshot>>
    /\ UNCHANGED <<reader_vars, cache_vars, db_vars, printed, api_vars>>

\* main.py main after time.sleep(3): api_thread.start()
start_api_thread ==
    /\ main_pc = "reader_thread"
    /\ main_pc' = "api_thread"
    /\ UNCHANGED <<files, TWITCH_CHANNEL, snapshot>>
    /\ UNCHANGED <<reader_vars, cache_vars, db_vars, printed, api_vars>>

\* svm.main up to asyncio.run, in the reader thread: it returns when a model
\* file or the channel is missing, and otherwise constructs the analyzer and
\* the reader
svm_main ==
    /\ main_pc \in {"reader_thread", "api_thread"}
    /\ pc = "main"
    /\ pc' = IF svm_requirements_met THEN "connect_and_listen" ELSE "done"
    /\ UNCHANGED <<state, joined, nlines, raw_message, message_count, sent, cur, utcnow>>
    /\ UNCHANGED <<cache_vars, db_vars, printed, api_vars, env_vars, snapshot>>

\* websockets.connect(uri) is entered
Connect ==
    /\ pc = "connect_and_listen" /\ state = "Disconnected"
    /\ state' = "Connecting"
    /\ UNCHANGED <<pc, joined, nlines, raw_message, message_count, sent, cur, utcnow>>
    /\ UNCHANGED <<cache_vars, db_vars, printed, api_vars, env_vars, snapshot>>

\* the handshake completes, or fails with an exception
Connected ==
    /\ pc = "connect_and_listen" /\ state = "Connecting"
    /\ \E ok \in BOOLEAN :
         IF ok
         THEN state' = "Authenticating" /\ pc' = pc
         ELSE state' = on_connection_lost.state /\ pc' = on_connection_lost.pc
    /\ UNCHANGED <<joined, nlines, raw_message, message_count, sent, cur, utcnow>>
    /\ UNCHANGED <<cache_vars, db_vars, printed, api_vars, env_vars, snapshot>>

\* the two credential lines of the anonymous login, in the order sent
Credentials == <<PASS_LINE, NICK_LINE>>

\* one of the two awaited sends of the credential lines: the next line that
\* has not been sent yet (nothing else is sent before them), or the send
\* raises
Authenticate ==
    /\ pc = "connect_and_listen" /\ state = "Authenticating"
    /\ Len(sent) < Len(Credentials)
    /\ \E ok \in BOOLEAN :
         IF ok
         THEN /\ sent' = Append(sent, Credentials[Len(sent) + 1])
              /\ state' = IF Len(sent') = Len(Credentials)
                          THEN "JoiningChannels" ELSE state
              /\ pc' = pc
         ELSE /\ UNCHANGED sent
              /\ state' = on_connection_lost.state
              /\ pc' = on_connection_lost.pc
    /\ UNCHANGED <<joined, nlines, raw_message, message_count, cur, utcnow>>
    /\ UNCHANGED <<cache_vars, db_vars, printed, api_vars, env_vars, snapshot>>

\* one iteration of the JOIN loop
Join ==
    /\ pc = "connect_and_listen" /\ state = "JoiningChannels"
    /\ joined < Len(channels)
    /\ \E ok \in BOOLEAN :
         IF ok
         THEN /\ sent' = Append(sent, JOIN_LINE(channels[joined + 1]))
              /\ joined' = joined + 1
              /\ UNCHANGED <<pc, state>>
         ELSE /\ state' = on_connection_lost.state
              /\ pc' = on_connection_lost.pc
              /\ UNCHANGED <<sent, joined>>
    /\ UNCHANGED <<nlines, raw_message, message_count, cur, utcnow>>
    /\ UNCHANGED <<cache_vars, db_vars, printed, api_vars, env_vars, snapshot>>

\* the JOIN loop is exhausted: async for raw_message in websocket
Listen ==
    /\ pc = "connect_and_listen" /\ state = "JoiningChannels"
    /\ joined = Len(channels)
    /\ state' = "Listening"
    /\ UNCHANGED <<pc, joined, nlines, raw_message, message_count, sent, cur, utcnow>>
    /\ UNCHANGED <<cache_vars, db_vars, printed, api_vars, env_vars, snapshot>>

\* the connection closes, or fails, while the loop waits for a line
ConnectionClosed ==
    /\ pc = "connect_and_listen" /\ state = "Listening"
    /\ state' = on_connection_lost.state
    /\ pc' = on_connection_lost.pc
    /\ UNCHANGED <<joined, nlines, raw_message, message_count, sent, cur, utcnow>>
    /\ UNCHANGED <<cache_vars, db_vars, printed, api_vars, env_vars, snapshot>>

\* a line printed by the listen loop or by process_message
\* (kind "received": line 202; "stored": lines 113-114; "error": line 117,
\* with the statement whose exception it reports)
Printed(kind, c, n, e) ==
    [kind |-> kind, user |-> c.user, channel |-> c.channel,
     message |-> c.message, score |-> c.sentiment_score, n |-> n, error |-> e]

\* a keepalive test that compares the whole line
is_ping_exact(line) == line = PING

\* the keepalive test of the listen loop: "PING" in raw_message
is_ping(line) == Contains(line, PING)

\* one iteration of the listen loop up to the call of process_message
RecvLine ==
    /\ pc = "connect_and_listen" /\ state = "Listening"
    /\ nlines < MaxLines
    /\ raw_message' \in Lines
    /\ nlines' = nlines + 1
    /\ IF is_ping(raw_message')
       THEN \E ok \in BOOLEAN :
              /\ IF ok
                 THEN sent' = Append(sent, PONG_LINE) /\ UNCHANGED <<pc, state>>
                 ELSE /\ UNCHANGED sent
                      /\ state' = on_connection_lost.state
                      /\ pc' = on_connection_lost.pc
              /\ UNCHANGED <<message_count, cur, utcnow, printed>>
       ELSE LET ev == parse_irc_message(raw_message') IN
            IF Truthy(ev.user) /\ Truthy(ev.channel) /\ Truthy(ev.message)
            THEN /\ message_count' = message_count + 1
                 /\ cur' = [NoCall EXCEPT !.user = ev.user,
                                          !.channel = ev.channel,
                                          !.message = ev.message]
                 /\ printed' = Append(printed,
                                 Printed("received", cur', message_count', ""))
                 /\ utcnow' = utcnow + 1
                 /\ pc' = "store_message"
                 /\ UNCHANGED <<state, sent>>
            ELSE UNCHANGED <<pc, state, message_count, cur, utcnow,
                             sent, printed>>
    /\ UNCHANGED <<joined>>
    /\ UNCHANGED <<cache_vars, db_vars, api_vars, env_vars, snapshot>>


(***************************************************************************)
(* SentimentClassifier.process_message, one action per statement of its    *)
(* try block.  The reader thread runs it while API threads may run.        *)
(***************************************************************************)
\* the statements of the try block of process_message, in order
try_body_next(step) ==
    CASE step = "store_message" -> "analyze_sentiment"
      [] step = "analyze_sentiment" -> "store_sentiment"
      [] step = "store_sentiment" -> "append_recent"
      [] step = "append_recent" -> "append_cache"
      [] step = "append_cache" -> "connect_and_listen"

\* an exception of process_message that is not caught there reaches the
\* handlers of connect_and_listen, which print and return
process_message_propagates(step, raised) ==
    IF raised THEN "done" ELSE try_body_next(step)

\* a handler around store_message alone, after which the body goes on
process_message_goes_on(step, raised) ==
    IF raised /\ step # "store_message" THEN "connect_and_listen"
    ELSE try_body_next(step)

\* a handler that goes on to the cache update when the classification
\* raised
process_message_records_anyway(step, raised) ==
    IF raised
    THEN (IF step = "analyze_sentiment"
          THEN "append_recent" ELSE "connect_and_listen")
    ELSE try_body_next(step)

\* control flow of process_message: where the reader thread is after the
\* statement `step`, which either raised or completed.  The whole body is
\* one try block whose handler prints the error; the call then returns to
\* the listen loop.
process_message_next(step, raised) ==
    IF raised THEN "connect_and_listen" ELSE try_body_next(step)

\* the pc values inside process_message
InCall == {"store_message", "analyze_sentiment", "store_sentiment",
           "append_recent", "append_cache"}

\* the part of a statement's effect that every statement shares: the
\* handler's print when it raised, and the locals dropped when the call ends.
\* An exception that left process_message would reach the handlers of
\* connect_and_listen, which return.
Leave(step, raised, locals) ==
    /\ pc' = process_message_next(step, raised)
    /\ state' = IF pc' = "done" THEN "Disconnected" ELSE state
    /\ cur' = IF pc' \in InCall THEN locals ELSE NoCall
    /\ printed' = IF raised /\ pc' # "done"
                  THEN Append(printed, Printed("error", NoCall, message_count, step))
                  ELSE IF step = "append_cache"
                  THEN Append(printed, Printed("stored", cur, message_count, ""))
                  ELSE printed

\* store_message: INSERT INTO twitch_messages, commit, return lastrowid
store_message ==
    /\ pc = "store_message"
    /\ \E raised \in BOOLEAN :
         IF raised
         THEN /\ Leave("store_message", TRUE, cur)
              /\ UNCHANGED twitch_messages
         ELSE LET message_id == Len(twitch_messages) + 1 IN
              /\ twitch_messages' = Append(twitch_messages,
                     [id |-> message_id, datetime |-> utcnow, user |-> cur.user,
                      channel |-> cur.channel, message |-> cur.message])
              /\ Leave("store_message", FALSE,
                       [cur EXCEPT !.message_id = message_id])
    /\ UNCHANGED <<joined, nlines, raw_message, message_count, sent, utcnow>>
    /\ UNCHANGED <<cache_vars, message_sentiments, api_vars, env_vars, snapshot>>

\* the labels classifier.predict returns
Labels == {"pos", "neg"}

\* analyze_sentiment: the score of a prediction
analyze_sentiment(prediction) == IF prediction = "pos" THEN 100 ELSE -100

\* analyze_sentiment(message): the vectorizer or the classifier may raise
analyze ==
    /\ pc = "analyze_sentiment"
    /\ \/ Leave("analyze_sentiment", TRUE, cur)
       \/ \E prediction \in Labels :
            Leave("analyze_sentiment", FALSE,
                  [cur EXCEPT !.sentiment_score = analyze_sentiment(prediction)])
    /\ UNCHANGED <<joined, nlines, raw_message, message_count, sent, utcnow>>
    /\ UNCHANGED <<cache_vars, db_vars, api_vars, env_vars, snapshot>>

\* store_sentiment: INSERT INTO message_sentiments, commit
store_sentiment ==
    /\ pc = "store_sentiment"
    /\ \E raised \in BOOLEAN :
         IF raised
         THEN /\ Leave("store_sentiment", TRUE, cur)
              /\ UNCHANGED message_sentiments
         ELSE /\ message_sentiments' = Append(message_sentiments,
                     [id |-> Len(message_sentiments) + 1,
                      message_id |-> cur.message_id,
                      sentiment_score |-> cur.sentiment_score,
                      processed_at |-> utcnow])
              /\ Leave("store_sentiment", FALSE, cur)
    /\ UNCHANGED <<joined, nlines, raw_message, message_count, sent, utcnow>>
    /\ UNCHANGED <<cache_vars, twitch_messages, api_vars, env_vars, snapshot>>

\* the dict appended to recent_messages
CacheEntry(c, now) ==
    [user |-> c.user, channel |-> c.channel, message |-> c.message,
     sentiment |-> c.sentiment_score, timestamp |-> now]

\* self.recent_messages.append({...}); self.lock is not taken
append_recent ==
    /\ pc = "append_recent"
    /\ recent_messages' = [recent_messages EXCEPT
           !["reader"] = deque_append(@, CacheEntry(cur, utcnow))]
    /\ Leave("append_recent", FALSE, cur)
    /\ UNCHANGED <<joined, nlines, raw_message, message_count, sent, utcnow>>
    /\ UNCHANGED <<sentiment_cache, lock, db_vars, api_vars, env_vars, snapshot>>

\* self.sentiment_cache.append(sentiment_score) and the two prints
append_cache ==
    /\ pc = "append_cache"
    /\ sentiment_cache' = [sentiment_cache EXCEPT
           !["reader"] = deque_append(@, cur.sentiment_score)]
    /\ Leave("append_cache", FALSE, cur)
    /\ UNCHANGED <<joined, nlines, raw_message, message_count, sent, utcnow>>
    /\ UNCHANGED <<recent_messages, lock, db_vars, api_vars, env_vars, snapshot>>


(***************************************************************************)
(* SentimentClassifier.get_average_sentiment and its callers.              *)
(***************************************************************************)
\* the names an instance of SentimentClassifier has: the attributes set by
\* __init__ and the functions defined in the class body.  The def of
\* get_average_sentiment is indented into the body of process_message: it
\* is a local function of that method, not a name of the class.
SentimentClassifierNames ==
    {"vectorizer", "classifier", "recent_messages", "sentiment_cache", "lock",
     "init_database", "analyze_sentiment", "store_message", "store_sentiment",
     "process_message"}

\* a dict the aggregate returns or the publisher sends, or the exception
\* raised instead (error is "" when none): keys are the keys the dict has,
\* and a field whose key is absent is 0
Dict(error, keys, average, count, distribution) ==
    [error |-> error, keys |-> keys,
     average_sentiment |-> average, message_count |-> count,
     positive |-> distribution[1], neutral |-> distribution[2],
     negative |-> distribution[3]]

\* an exception, and the payload {"error": str(e)} the publisher makes of it
Raised(exc) == Dict(exc, {"error"}, 0, 0, <<0, 0, 0>>)

\* a positive test that takes the threshold itself as positive
is_positive_inclusive(s) == s >= 10

\* the tests of the three sums of 'sentiment_distribution'
is_positive(s) == s > 10
is_neutral(s) == -10 <= s /\ s <= 10
is_negative(s) == s < -10

\* the dict 'sentiment_distribution' of the list recent_sentiments:
\* <<positive, neutral, negative>>
sentiment_distribution(recent_sentiments) ==
    LET s == recent_sentiments IN
    <<Cardinality({i \in 1..Len(s) : is_positive(s[i])}),
      Cardinality({i \in 1..Len(s) : is_neutral(s[i])}),
      Cardinality({i \in 1..Len(s) : is_negative(s[i])})>>

\* the body of get_average_sentiment on the cache of an object: the dict of
\* the empty cache, which has no 'sentiment_distribution', and otherwise the
\* slice self.sentiment_cache[-n_messages:], which a deque does not support
get_average_sentiment_body(cache, n_messages) ==
    IF cache = <<>>
    THEN Dict("", {"average_sentiment", "message_count", "timestamp"},
              0, 0, <<0, 0, 0>>)
    ELSE Raised("TypeError")

get_average_sentiment(self, n_messages) ==
    get_average_sentiment_body(sentiment_cache[self], n_messages)

\* no direct call of the aggregate has been made
NoSnapshot ==
    [call |-> "none", window |-> 0, input |-> <<>>,
     result |-> Dict("", {}, 0, 0, <<0, 0, 0>>)]

Init == InitState /\ snapshot = NoSnapshot

\* the expression sentiment_analyzer.get_average_sentiment(50) of API.py
call_get_average_sentiment(self, n_messages) ==
    IF "get_average_sentiment" \in SentimentClassifierNames
    THEN get_average_sentiment(self, n_messages)
    ELSE Raised("AttributeError")

\* the window the publisher asks for
StreamWindow == 50

(***************************************************************************)
(* API.py: startup_event and the generator of /sentiment/stream            *)
(***************************************************************************)
\* startup_event in the API thread: sentiment_analyzer =
\* SentimentClassifier(...), a second object with deques of its own; the
\* constructor raises, and the server does not start, without the model files
startup_event ==
    /\ main_pc = "api_thread"
    /\ sentiment_analyzer = "None"
    /\ ModelFiles \subseteq files
    /\ sentiment_analyzer' = "api"
    /\ UNCHANGED <<sub_pc, ticks, delivered>>
    /\ UNCHANGED <<reader_vars, cache_vars, db_vars, printed, env_vars, snapshot>>

\* a dashboard client requests /sentiment/stream: the server serves requests
\* once its startup has completed
Subscribe ==
    /\ sentiment_analyzer # "None"
    /\ sub_pc = "closed" /\ ticks = 0
    /\ sub_pc' = "tick"
    /\ UNCHANGED <<sentiment_analyzer, ticks, delivered>>
    /\ UNCHANGED <<reader_vars, cache_vars, db_vars, printed, env_vars, snapshot>>

\* a generator without the except branch: the exception ends it
event_stream_raise(e) ==
    [payloads |-> <<>>, sub_pc |-> "closed"]

\* the except branch of event_stream: one error payload, then sleep(10)
event_stream_except(e) ==
    [payloads |-> <<Raised(e)>>, sub_pc |-> "sleep10"]

\* one iteration of the while loop of event_stream, up to its sleep
Tick ==
    /\ sub_pc = "tick" /\ ticks < MaxTicks
    /\ ticks' = ticks + 1
    /\ IF sentiment_analyzer # "None"
       THEN LET sentiment_data ==
                    call_get_average_sentiment(sentiment_analyzer, StreamWindow)
            IN  IF sentiment_data.error = ""
                THEN /\ delivered' = Append(delivered, sentiment_data)
                     /\ sub_pc' = "sleep5"
                ELSE /\ delivered' = delivered
                                     \o event_stream_except(sentiment_data.error).payloads
                     /\ sub_pc' = event_stream_except(sentiment_data.error).sub_pc
       ELSE /\ sub_pc' = "sleep5"
            /\ UNCHANGED delivered
    /\ UNCHANGED sentiment_analyzer
    /\ UNCHANGED <<reader_vars, cache_vars, db_vars, printed, env_vars, snapshot>>

\* asyncio.sleep(5) or asyncio.sleep(10) returns: the loop iterates
Wake ==
    /\ sub_pc \in {"sleep5", "sleep10"}
    /\ sub_pc' = "tick"
    /\ UNCHANGED <<sentiment_analyzer, ticks, delivered>>
    /\ UNCHANGED <<reader_vars, cache_vars, db_vars, printed, env_vars, snapshot>>

\* the subscriber disconnects: the server closes the generator
Unsubscribe ==
    /\ sub_pc \in {"tick", "sleep5", "sleep10"}
    /\ sub_pc' = "left"
    /\ UNCHANGED <<sentiment_analyzer, ticks, delivered>>
    /\ UNCHANGED <<reader_vars, cache_vars, db_vars, printed, env_vars, snapshot>>

(***************************************************************************)
(* The system: reader thread, API startup and one subscriber.              *)
(***************************************************************************)
Next ==
    \/ main_py
    \/ start_api_thread
    \/ svm_main
    \/ Connect
    \/ Connected
    \/ Authenticate
    \/ Join
    \/ Listen
    \/ RecvLine
    \/ ConnectionClosed
    \/ store_message
    \/ analyze
    \/ store_sentiment
    \/ append_recent
    \/ append_cache
    \/ startup_event
    \/ Subscribe
    \/ Tick
    \/ Wake
    \/ Unsubscribe

Spec == Init /\ [][Next]_vars


(***************************************************************************)
(* The ingestion process and direct calls of the aggregate on its object:  *)
(* get_average_sentiment(analyzer, n) for the analyzer svm.main built.     *)
(***************************************************************************)
\* the windows a caller asks for: shorter than, equal to and longer than a
\* full cache
Windows == 1..(maxlen + 1)

\* a read that consumes the scores it reads
aggregate_consuming ==
    /\ pc \notin {"main", "done"}
    /\ lock["reader"] = "free"
    /\ \E n_messages \in Windows :
         snapshot' = [call |-> "get_average_sentiment", window |-> n_messages,
                      input |-> sentiment_cache["reader"],
                      result |-> get_average_sentiment("reader", n_messages)]
    /\ sentiment_cache' = [sentiment_cache EXCEPT !["reader"] = <<>>]
    /\ UNCHANGED <<recent_messages, lock>>
    /\ UNCHANGED <<reader_vars, db_vars, printed, api_vars, env_vars>>

\* one call of get_average_sentiment on the reader's analyzer, from any
\* thread: with self.lock, the body, and the lock released on return or raise
aggregate ==
    /\ pc \notin {"main", "done"}
    /\ lock["reader"] = "free"
    /\ \E n_messages \in Windows :
         snapshot' = [call |-> "get_average_sentiment", window |-> n_messages,
                      input |-> sentiment_cache["reader"],
                      result |-> get_average_sentiment("reader", n_messages)]
    /\ UNCHANGED <<reader_vars, cache_vars, db_vars, printed, api_vars, env_vars>>

NextAggregate ==
    \/ main_py
    \/ start_api_thread
    \/ svm_main
    \/ Connect
    \/ Connected
    \/ Authenticate
    \/ Join
    \/ Listen
    \/ RecvLine
    \/ ConnectionClosed
    \/ store_message
    \/ analyze
    \/ store_sentiment
    \/ append_recent
    \/ append_cache
    \/ aggregate

SpecAggregate == Init /\ [][NextAggregate]_vars

(***************************************************************************)
(* The bucket counts of get_average_sentiment as a function of the list    *)
(* they are computed from.                                                 *)
(***************************************************************************)
\* longest list of scores
MaxScores == 3

\* scores around the two thresholds, in hundredths
ScoreValues == {-100, -11, -10, 0, 10, 11, 100}

ScoreLists == UNION {[1..n -> ScoreValues] : n \in 0..MaxScores}

InitBuckets ==
    /\ InitState
    /\ snapshot \in {[NoSnapshot EXCEPT !.input = s] : s \in ScoreLists}

\* the dict 'sentiment_distribution' is computed from recent_sentiments
distribute ==
    /\ snapshot.call = "none"
    /\ snapshot' = [call |-> "sentiment_distribution",
                    window |-> Len(snapshot.input),
                    input |-> snapshot.input,
                    result |-> Dict("", {"positive", "neutral", "negative"}, 0, 0,
                                    sentiment_distribution(snapshot.input))]
    /\ UNCHANGED <<reader_vars, cache_vars, db_vars, printed, api_vars, env_vars>>

NextBuckets == distribute

SpecBuckets == InitBuckets /\ [][NextBuckets]_vars

(***************************************************************************)
(* Helpers of the properties.                                              *)
(***************************************************************************)
Last(q) == q[Len(q)]

\* the last min(n, Len(q)) elements of q
LastN(q, n) == IF Len(q) <= n THEN q ELSE SubSeq(q, Len(q) - n + 1, Len(q))

IsStored(p) == p.kind = "stored"

\* the record operations so far, oldest first: process_message reports each
\* completed cache update
Recorded == SelectSeq(printed, IsStored)

\* a cache entry without its timestamp
Shown(e) == [user |-> e.user, channel |-> e.channel, message |-> e.message,
             score |-> e.sentiment]
ShownPrinted(p) == [user |-> p.user, channel |-> p.channel,
                    message |-> p.message, score |-> p.score]

\* process_message is not running
Returned == pc \notin InCall


(***************************************************************************)
(* Claims.                                                                 *)
(***************************************************************************)
\* C1: when process_message has returned after store_message or
\* store_sentiment raised for a message, the entry and the score of that
\* message are the newest elements of the ingestion cache.
C1_CacheUpdatedDespitePersistenceFailure ==
    (/\ Returned
     /\ printed # <<>>
     /\ Last(printed).kind = "error"
     /\ Last(printed).error \in {"store_message", "store_sentiment"})
    => /\ recent_messages["reader"] # <<>>
       /\ Last(recent_messages["reader"]).timestamp = utcnow
       /\ Len(sentiment_cache["reader"]) = Len(recent_messages["reader"])

\* C2: the two appends of process_message are one critical section of the
\* object's lock: the two sequences of an object differ in length only while
\* process_message holds that lock, so no holder of the lock sees them differ.
C2_AppendsInsideCriticalSection ==
    \A i \in Inst :
        Len(recent_messages[i]) # Len(sentiment_cache[i])
        => lock[i] = "process_message"

\* C3: each cache sequence holds at most maxlen elements, in insertion
\* order, and they are exactly the last min(k, maxlen) of the k recorded
\* entries (the entry sequence runs one ahead between the two appends).
C3_CacheHoldsLastRecorded ==
    /\ \A i \in Inst : /\ Len(recent_messages[i]) <= maxlen
                       /\ Len(sentiment_cache[i]) <= maxlen
    /\ sentiment_cache["reader"] =
           LET last == LastN(Recorded, maxlen)
           IN  [k \in 1..Len(last) |-> last[k].score]
    /\ pc # "append_cache" =>
           [k \in 1..Len(recent_messages["reader"]) |->
                Shown(recent_messages["reader"][k])]
           = LET last == LastN(Recorded, maxlen)
             IN  [k \in 1..Len(last) |-> ShownPrinted(last[k])]
    /\ \A k \in 1..(Len(recent_messages["reader"]) - 1) :
           recent_messages["reader"][k].timestamp
               < recent_messages["reader"][k + 1].timestamp

\* a record at capacity has happened: more entries recorded than fit
C3_Witness ==
    /\ Returned
    /\ Len(Recorded) > maxlen
    /\ Len(sentiment_cache["reader"]) = maxlen
    /\ Last(recent_messages["reader"]).timestamp = utcnow


\* C4: the cache the /sentiment/stream loop aggregates over is the cache the
\* ingestion path records into: at every tick of the loop the score sequence
\* of the object behind sentiment_analyzer holds the scores recorded so far.
C4_StreamReadsIngestionCache ==
    (sub_pc = "tick" /\ Returned)
    => sentiment_cache[sentiment_analyzer] = sentiment_cache["reader"]

\* C5: every payload delivered to the subscriber is an aggregate snapshot,
\* not an error payload, and the loop always waits the 5-second interval.
C5_EveryTickDeliversSnapshot ==
    /\ \A k \in 1..Len(delivered) : delivered[k].error = ""
    /\ sub_pc # "sleep10"
    /\ sub_pc \in {"tick", "left"} => Len(delivered) = ticks

\* C6: a tick whose aggregate raises delivers exactly one error payload
\* carrying that error and goes to the 10-second sleep; from that sleep the
\* loop goes to its next tick unless the subscriber leaves, and the generator
\* never ends by itself.
C6_ErrorTickCaught ==
    [][/\ (/\ ticks' = ticks + 1
           /\ sentiment_analyzer # "None"
           /\ call_get_average_sentiment(sentiment_analyzer, StreamWindow).error # "")
          => /\ delivered' = Append(delivered,
                    Raised(call_get_average_sentiment(sentiment_analyzer,
                                                      StreamWindow).error))
             /\ sub_pc' = "sleep10"
       /\ sub_pc = "sleep10" => sub_pc' \in {"sleep10", "tick", "left"}
       /\ sub_pc # "closed" => sub_pc' # "closed"]_vars

\* an error tick has been delivered and the loop is at its next tick
C6_Witness ==
    /\ sub_pc = "tick"
    /\ ticks >= 1
    /\ Len(delivered) = ticks
    /\ Last(delivered).error # ""


\* C7: when analyze_sentiment raises, process_message ends without the
\* exception leaving it: the reader thread is back in the listen loop, the
\* client is still Listening, the error is printed and nothing else of the
\* reader has changed, so the next line is received as before.
C7_ClassificationFailureContained ==
    [][(pc = "analyze_sentiment" /\ pc' \notin {pc, "store_sentiment"})
        => /\ pc' = "connect_and_listen"
           /\ state' = "Listening"
           /\ printed' = Append(printed,
                  Printed("error", NoCall, message_count, "analyze_sentiment"))
           /\ UNCHANGED <<nlines, raw_message, message_count, sent, joined>>]_vars

\* after a classification failure a later chat event has been processed
\* normally, up to its cache update
C7_Witness ==
    /\ Returned /\ state = "Listening"
    /\ \E k \in 1..Len(printed) :
         /\ printed[k].kind = "error" /\ printed[k].error = "analyze_sentiment"
         /\ \E m \in (k + 1)..Len(printed) :
              /\ printed[m].kind = "stored"
              /\ printed[m].n > printed[k].n
    /\ Last(recent_messages["reader"]).timestamp = utcnow

\* C8: whenever process_message is not running, every row of twitch_messages
\* has exactly one row of message_sentiments that references it.
C8_OneSentimentPerMessage ==
    Returned =>
        \A m \in 1..Len(twitch_messages) :
            Cardinality({k \in 1..Len(message_sentiments) :
                message_sentiments[k].message_id = twitch_messages[m].id}) = 1

\* C9: every insert into message_sentiments references a row that
\* twitch_messages already held before the insert, and that row is the one
\* stored for the message being processed; every stored sentiment row
\* references a stored message row.
C9_SentimentAfterItsMessage ==
    [][message_sentiments' # message_sentiments
        => /\ Len(message_sentiments') = Len(message_sentiments) + 1
           /\ \E m \in 1..Len(twitch_messages) :
                /\ twitch_messages[m].id = Last(message_sentiments').message_id
                /\ twitch_messages[m].datetime = utcnow
                /\ twitch_messages[m].message = cur.message
           /\ twitch_messages' = twitch_messages]_vars

\* a sentiment row has been inserted for a message after the insert of an
\* earlier message failed
C9_Witness ==
    /\ message_sentiments # <<>>
    /\ \E k \in 1..Len(printed) :
         /\ printed[k].kind = "error" /\ printed[k].error = "store_message"
         /\ printed[k].n < message_count
    /\ Last(message_sentiments).processed_at = utcnow

\* the order of the states of the protocol client
StateOrder ==
    {<<"Disconnected", "Connecting">>, <<"Connecting", "Authenticating">>,
     <<"Authenticating", "JoiningChannels">>, <<"JoiningChannels", "Listening">>}

\* C10: the client's state only moves one step along Disconnected,
\* Connecting, Authenticating, JoiningChannels, Listening, or to Disconnected;
\* when the reader thread leaves connect_and_listen the state is
\* Disconnected; after that the state stays Disconnected and nothing is
\* received, counted, sent or processed any more.
C10_NoReconnect ==
    [][/\ state' # state =>
              \/ <<state, state'>> \in StateOrder
              \/ state' = "Disconnected" /\ pc' = "done"
       /\ pc' = "done" => state' = "Disconnected"
       /\ pc = "done" =>
              /\ pc' = "done"
              /\ UNCHANGED <<state, nlines, raw_message, message_count, sent, cur, printed>>
              /\ UNCHANGED <<recent_messages, sentiment_cache, db_vars>>]_vars

\* the connection closed after the client had listened and emitted an event,
\* and the rest of the system went on running
C10_Witness ==
    /\ pc = "done" /\ state = "Disconnected"
    /\ message_count >= 1
    /\ ticks >= 1

(***************************************************************************)
(* The wire decoding contract, as the specification words it.              *)
(***************************************************************************)
\* a keepalive probe: the line begins with the command PING
IsKeepalive(line) == StartsWith(line, PING)

\* the line has the shape :<user>!<...> <COMMAND> #<channel> :<text>
IsChatPostShape(line) ==
    LET parts == Split(line, " ", 3) IN
    /\ Len(parts) = 4
    /\ StartsWith(parts[1], <<":">>) /\ Contains(parts[1], <<"!">>)
    /\ StartsWith(parts[3], <<"#">>)
    /\ StartsWith(parts[4], <<":">>)

\* a well-formed chat post: the shape, with the command PRIVMSG
IsChatPost(line) ==
    IsChatPostShape(line) /\ Split(line, " ", 3)[2] = PRIVMSG

\* the chat event of a well-formed chat post
ChatEvent(line) ==
    LET parts == Split(line, " ", 3) IN
    [user    |-> SubSeq(parts[1], 2, Find(parts[1], "!") - 1),
     channel |-> Drop1(parts[3]),
     message |-> Drop1(parts[4])]

\* the listen loop has just received a line
Received == nlines' = nlines + 1

\* C11: every well-formed chat post received while Listening is passed to
\* process_message as exactly one chat event with its user, channel and
\* text, whatever the text is, and no keepalive reply is sent for it.
C11_ChatPostYieldsEvent ==
    [][(Received /\ IsChatPost(raw_message'))
        => /\ message_count' = message_count + 1
           /\ pc' = "store_message"
           /\ cur'.user = ChatEvent(raw_message').user
           /\ cur'.channel = ChatEvent(raw_message').channel
           /\ cur'.message = ChatEvent(raw_message').message
           /\ sent' = sent]_vars

\* C12 as stated: every keepalive probe received while Listening is answered
\* with exactly one acknowledgment, yields no chat event and leaves the
\* client in Listening.
C12_KeepaliveAlwaysAcknowledged ==
    [][(Received /\ IsKeepalive(raw_message'))
        => /\ sent' = Append(sent, PONG_LINE)
           /\ message_count' = message_count
           /\ pc' \notin InCall
           /\ state' = "Listening"]_vars

\* C12: a keepalive probe received while Listening never yields a chat
\* event; when the send of the acknowledgment succeeds, exactly one
\* acknowledgment is sent and the client stays in Listening; when the send
\* raises, nothing is sent and the client ends in Disconnected.
C12_KeepaliveAcknowledgedOrLost ==
    [][(Received /\ IsKeepalive(raw_message'))
        => /\ message_count' = message_count
           /\ pc' \notin InCall
           /\ cur' = cur /\ printed' = printed
           /\ \/ /\ sent' = Append(sent, PONG_LINE)
                 /\ state' = "Listening" /\ pc' = pc
              \/ /\ sent' = sent
                 /\ state' = "Disconnected" /\ pc' = "done"]_vars

\* a keepalive probe has been acknowledged after a chat event, and the
\* client is still listening
C12_Witness ==
    /\ state = "Listening" /\ pc = "connect_and_listen"
    /\ raw_message = PingLine
    /\ Last(sent) = PONG_LINE
    /\ message_count >= 1

\* C13: every line received while Listening that is neither a keepalive
\* probe nor of the chat-post shape is dropped: no chat event is counted or
\* processed, nothing is printed or sent, and the client stays in Listening.
C13_OtherLinesDropped ==
    [][(Received /\ ~IsKeepalive(raw_message') /\ ~IsChatPostShape(raw_message'))
        => /\ message_count' = message_count
           /\ pc' = "connect_and_listen"
           /\ state' = "Listening"
           /\ cur' = cur /\ printed' = printed /\ sent' = sent]_vars

(***************************************************************************)
(* The aggregate contract.                                                 *)
(***************************************************************************)
\* the keys of the three bucket counts of a snapshot
CountKeys == {"positive", "neutral", "negative"}

\* the snapshot of an empty cache: no error, mean 0 and the three counts 0
IsEmptySnapshot(d) ==
    /\ d.error = ""
    /\ "average_sentiment" \in d.keys /\ d.average_sentiment = 0
    /\ CountKeys \subseteq d.keys
    /\ d.positive = 0 /\ d.neutral = 0 /\ d.negative = 0

\* C14: the aggregate called on an empty cache returns, without error, a
\* snapshot with mean 0 and the counts positive, neutral and negative 0: a
\* tick of the stream whose analyzer has an empty cache delivers it.
C14_EmptyCacheSnapshot ==
    [][(/\ ticks' = ticks + 1
        /\ sentiment_analyzer # "None"
        /\ sentiment_cache[sentiment_analyzer] = <<>>)
        => /\ Len(delivered') = Len(delivered) + 1
           /\ IsEmptySnapshot(Last(delivered'))]_vars

RECURSIVE Sum(_)
Sum(s) == IF s = <<>> THEN 0 ELSE s[1] + Sum(Tail(s))

\* the bucket counts of the scores w with the thresholds 0.1 and -0.1
Positive(w) == Cardinality({i \in 1..Len(w) : w[i] > 10})
Neutral(w) == Cardinality({i \in 1..Len(w) : -10 <= w[i] /\ w[i] <= 10})
Negative(w) == Cardinality({i \in 1..Len(w) : w[i] < -10})

\* the snapshot of the window w: its size, its mean and its bucket counts
IsSnapshotOf(d, w) ==
    /\ d.error = ""
    /\ "message_count" \in d.keys /\ d.message_count = Len(w)
    /\ "average_sentiment" \in d.keys
    /\ d.average_sentiment * Len(w) = Sum(w)
    /\ CountKeys \subseteq d.keys
    /\ d.positive = Positive(w) /\ d.neutral = Neutral(w)
    /\ d.negative = Negative(w)

\* C15: the aggregate called with window w on a non-empty cache returns the
\* snapshot of the most recent min(w, length) scores: that window size,
\* their mean and their bucket counts.
C15_SnapshotOfRecentWindow ==
    (snapshot.call = "get_average_sentiment" /\ snapshot.input # <<>>)
    => IsSnapshotOf(snapshot.result, LastN(snapshot.input, snapshot.window))

\* C16: the three bucket counts computed from a list of scores count every
\* score exactly once: each score satisfies exactly one of s > 0.1,
\* -0.1 <= s <= 0.1 and s < -0.1, the three counts are the numbers of
\* scores of each kind, and they add up to the length of the list.
C16_BucketsExclusiveAndTotal ==
    snapshot.call = "sentiment_distribution"
    => LET w == snapshot.input
           d == snapshot.result
       IN  /\ \A i \in 1..Len(w) :
                Cardinality({b \in CountKeys :
                    \/ b = "positive" /\ is_positive(w[i])
                    \/ b = "neutral" /\ is_neutral(w[i])
                    \/ b = "negative" /\ is_negative(w[i])}) = 1
           /\ d.positive = Positive(w)
           /\ d.neutral = Neutral(w)
           /\ d.negative = Negative(w)
           /\ d.positive + d.neutral + d.negative = Len(w)

\* the counts of a list that holds both thresholds and a score beyond each
C16_Witness ==
    /\ snapshot.call = "sentiment_distribution"
    /\ {10, -10} \subseteq {snapshot.input[i] : i \in 1..Len(snapshot.input)}
    /\ Len(snapshot.input) = MaxScores
    /\ snapshot.result.neutral >= 2
    /\ snapshot.result.positive + snapshot.result.negative >= 1

\* the printed reports of a classification failure
ClassificationFailures ==
    {k \in 1..Len(printed) :
        printed[k].kind = "error" /\ printed[k].error = "analyze_sentiment"}

\* C17: for every message whose classification failed, the failure is
\* printed, the row of the message is in twitch_messages, and neither an
\* entry nor a score of that message is in the cache or was ever recorded.
\* (The clock is read once per chat event, so the n-th event has time n.)
C17_FailedClassificationNotCached ==
    \A k \in ClassificationFailures :
        LET n == printed[k].n IN
        /\ \E m \in 1..Len(twitch_messages) : twitch_messages[m].datetime = n
        /\ \A i \in Inst : \A e \in 1..Len(recent_messages[i]) :
               recent_messages[i][e].timestamp # n
        /\ \A j \in 1..Len(printed) :
               printed[j].kind = "stored" => printed[j].n # n
        /\ \A j \in 1..Len(message_sentiments) :
               message_sentiments[j].processed_at # n
        /\ Len(sentiment_cache["reader"]) <= Len(Recorded)

\* a classification failed between two messages that were recorded
C17_Witness ==
    /\ Returned
    /\ \E k \in ClassificationFailures :
         /\ \E j \in 1..Len(printed) :
              printed[j].kind = "stored" /\ printed[j].n < printed[k].n
         /\ \E j \in 1..Len(printed) :
              printed[j].kind = "stored" /\ printed[j].n > printed[k].n
         /\ \E m \in 1..Len(twitch_messages) :
              twitch_messages[m].datetime = printed[k].n

\* C18: the two appends of process_message are the only steps that change
\* a cache sequence, each the sequence it appends to; a call of the
\* aggregate, whatever its window and whether the cache is empty or not,
\* leaves both sequences of every object as they were.
C18_OnlyRecordChangesCache ==
    [][/\ recent_messages' # recent_messages
            => /\ pc = "append_recent" /\ pc' = "append_cache"
               /\ snapshot' = snapshot
       /\ sentiment_cache' # sentiment_cache
            => /\ pc = "append_cache" /\ pc' = "connect_and_listen"
               /\ snapshot' = snapshot
       /\ snapshot' # snapshot
            => UNCHANGED <<recent_messages, sentiment_cache>>]_vars

\* the aggregate has been called on a full cache with a window shorter than
\* the cache, and the cache still holds the scores the call read
C18_Witness ==
    /\ snapshot.call = "get_average_sentiment"
    /\ Len(snapshot.input) = maxlen
    /\ snapshot.window < maxlen
    /\ sentiment_cache["reader"] = snapshot.input
    /\ Len(recent_messages["reader"]) = maxlen
    /\ Len(Recorded) >= maxlen

(***************************************************************************)
(* Startup and the handshake.                                              *)
(***************************************************************************)
\* a model artifact or the channel configuration is missing
StartupRequirementMissing ==
    \/ "vectorizer.sav" \notin files
    \/ "classifier.sav" \notin files
    \/ TWITCH_CHANNEL = <<>>

\* C19: when a model artifact or TWITCH_CHANNEL is missing, main.py starts
\* neither the reader thread nor the API thread, the reader never runs or
\* connects, nothing is sent and the API never builds its analyzer.
C19_NoStartWithoutRequirements ==
    StartupRequirementMissing
    => /\ main_pc \in {"main", "exited"}
       /\ pc = "main"
       /\ state = "Disconnected"
       /\ sent = <<>>
       /\ nlines = 0
       /\ sentiment_analyzer = "None"
       /\ sub_pc = "closed"

\* main.py has exited because only the channel configuration is missing
C19_Witness ==
    /\ main_pc = "exited"
    /\ files = RequiredFiles
    /\ TWITCH_CHANNEL = <<>>

\* the lines the client owes the server at connection start when
\* TWITCH_CHANNEL is "Cb, A": the two credential lines, then JOIN #cb and
\* JOIN #a
Handshake ==
    <<PASS_LINE, NICK_LINE,
      <<"J", "O", "I", "N", " ", "#", "c", "b">>,
      <<"J", "O", "I", "N", " ", "#", "a">>>>

\* C20: what the client has sent is always a prefix of the handshake (the
\* two credential lines, then one join per configured channel, lower-cased,
\* in order) or the whole handshake followed by keepalive acknowledgments
\* only; the client is Listening or has read a line only after the whole
\* handshake was sent.
C20_HandshakeOnceThenRead ==
    /\ TWITCH_CHANNEL = <<>> => sent = <<>>
    /\ TWITCH_CHANNEL # <<>> =>
         /\ Len(sent) <= Len(Handshake)
              => sent = SubSeq(Handshake, 1, Len(sent))
         /\ Len(sent) > Len(Handshake)
              => /\ SubSeq(sent, 1, Len(Handshake)) = Handshake
                 /\ \A k \in (Len(Handshake) + 1)..Len(sent) :
                        sent[k] = PONG_LINE
         /\ (state = "Listening" \/ nlines > 0) => Len(sent) >= Len(Handshake)
         /\ state \in {"Disconnected", "Connecting"} /\ pc # "done"
              => sent = <<>>
         /\ state = "Authenticating" => Len(sent) < 2
         /\ state = "JoiningChannels" => Len(sent) = 2 + joined

\* the client has joined both channels, read lines and acknowledged a
\* keepalive probe
C20_Witness ==
    /\ state = "Listening"
    /\ nlines >= 2
    /\ Len(sent) > Len(Handshake)
    /\ Last(sent) = PONG_LINE
    /\ joined = 2

====
